---- MODULE Spec2Model ----
(***************************************************************************)
(* Interactive move controller of tonnetto-chess-ts (src/gui/index.js).    *)
(*                                                                         *)
(* The controller keeps one global `state` object, renders the board from  *)
(* state.fen, reacts to square clicks, and asks a Web Worker for the       *)
(* computer's move.  The chess rules engine (ChessEngineAPI) and the       *)
(* worker script live outside src/gui; they are modelled from their        *)
(* documented contract as a small but complete rules engine (kings and     *)
(* rooks) on a board scaled from 8x8 to 3x3.                               *)
(*                                                                         *)
(* Representation                                                          *)
(*   character       a one-character string                                *)
(*   string          a sequence of characters                              *)
(*   FEN             the sequence of its space-separated fields:           *)
(*                   <<placement, side to move, halfmove clock>>           *)
(*                   (castling, en passant and the fullmove number are     *)
(*                   never read by the controller and are left out)        *)
(*   coordinate      <<file letter, rank number>>, e.g. <<"a", 1>>         *)
(*   move notation   <<origin coordinate, destination coordinate>>         *)
(***************************************************************************)
EXTENDS Integers, Sequences, FiniteSets, TLC

VARIABLES
    gameState,       \* state.gameState
    selectedSquare,  \* state.selectedSquare (coordinate of the <div>, or NULL)
    fen,             \* state.fen
    playerColour,    \* state.playerColour
    difficulty,      \* state.difficulty
    settingsShown,   \* settingsElement is displayed (the form can be submitted)
    board,           \* the rendered squares: coordinate -> piece character or "0"
    highlight,       \* the rendered squares carrying class 'selected-square'
    requests,        \* messages posted to chessWorker and not yet answered (FIFO)
    onmessage,       \* chessWorker.onmessage
    last             \* the handler that ran last: [op, arg, branch]

vars == <<gameState, selectedSquare, fen, playerColour, difficulty,
          settingsShown, board, highlight, requests, onmessage, last>>

----------------------------------------------------------------------------
(* Bounds *)

\* Exploration stops once the halfmove clock of state.fen reaches this value.
MaxHalfmove == 3

----------------------------------------------------------------------------
(* Basic values *)

\* null: no square, no move.
NULL == <<>>

\* chessWorker.onmessage before any handler is assigned.
NoHandler == "null"

\* An empty form field (falsy in the code): the empty string, and for the
\* position, which is kept as its sequence of fields, the empty sequence.
NoInput == ""

NoFen == <<>>

\* The difficulty field is kept as the number it spells; 0 is the empty field.
NoDifficulty == 0

files == <<"a", "b", "c">>

BoardSize == Len(files)

Coordinates == {<<files[c], r>> : c \in 1..BoardSize, r \in 1..BoardSize}

DigitValue == [d \in {"0", "1", "2", "3", "4", "5", "6", "7", "8", "9"} |->
                 CASE d = "0" -> 0 [] d = "1" -> 1 [] d = "2" -> 2 [] d = "3" -> 3
                   [] d = "4" -> 4 [] d = "5" -> 5 [] d = "6" -> 6 [] d = "7" -> 7
                   [] d = "8" -> 8 [] d = "9" -> 9]

IsDigit(ch) == ch \in DOMAIN DigitValue

LowerCasePieces == {"k", "q", "r", "b", "n", "p"}

RECURSIVE Repeat(_, _)
Repeat(ch, n) == IF n = 0 THEN <<>> ELSE <<ch>> \o Repeat(ch, n - 1)

RECURSIVE Split(_, _)
\* String.prototype.split on a one-character separator.
Split(s, sep) ==
    IF \E i \in 1..Len(s) : s[i] = sep
    THEN LET i == CHOOSE j \in 1..Len(s) :
                    s[j] = sep /\ \A k \in 1..(j - 1) : s[k] # sep
         IN <<SubSeq(s, 1, i - 1)>> \o Split(SubSeq(s, i + 1, Len(s)), sep)
    ELSE <<s>>

Reverse(s) == [i \in 1..Len(s) |-> s[Len(s) + 1 - i]]

----------------------------------------------------------------------------
(* state defaults and the difficulty table *)

\* The default position, scaled to the 3x3 board: black king a3, white king
\* a1, white rook c1, white to move, halfmove clock 0.
DefaultFen == << <<"k", "2", "/", "3", "/", "K", "1", "R">>, "w", 0 >>

\* The table as it would be if the difficulty itself were sent as the depth.
difficultyScale_identity == [d \in 1..5 |-> d]

difficultyScale == [d \in 1..5 |->
    CASE d = 1 -> 2 [] d = 2 -> 4 [] d = 3 -> 5 [] d = 4 -> 7 [] d = 5 -> 10]

\* getTurn as it would be if it read the side to move of the default position
\* instead of state.fen.
getTurn_fromDefault == DefaultFen[2]

\* state.fen.split(' ')[1]: the second space-separated field.
getTurn == fen[2]

----------------------------------------------------------------------------
(* FEN codec and rendering *)

RECURSIVE ExpandRow(_)
\* row.replace(/\d/g, (match) => '0'.repeat(parseInt(match, 10)))
ExpandRow(row) ==
    IF row = <<>> THEN <<>>
    ELSE (IF IsDigit(Head(row)) THEN Repeat("0", DigitValue[Head(row)])
                                ELSE <<Head(row)>>) \o ExpandRow(Tail(row))

\* transformFenToPositionArray without the final reverse().
transformFenToPositionArray_noReverse(f) ==
    LET rows == Split(f[1], "/")
    IN [i \in 1..Len(rows) |-> ExpandRow(rows[i])]

\* Row i of the result is rank i; f.split(' ')[0] is the first field.
transformFenToPositionArray(f) ==
    LET rows == Split(f[1], "/")
        boardArray == [i \in 1..Len(rows) |-> ExpandRow(rows[i])]
    IN Reverse(boardArray)

\* The squares renderBoard creates for position f: the square with
\* data-coordinate files[col] row holds position[row-1][col] (0-based).
renderedSquares(f) ==
    LET position == transformFenToPositionArray(f)
    IN [sq \in Coordinates |->
          LET col == CHOOSE c \in 1..BoardSize : files[c] = sq[1]
          IN position[sq[2]][col]]

\* hasPiece as it would be if the query matched the square itself.
hasPiece_anySquare(sq) == sq \in DOMAIN board

\* square.querySelector('.chess-piece'): an <img> exists unless the cell is '0'.
hasPiece(sq) == board[sq] # "0"

\* pieceColourOf with the two colours swapped.
pieceColourOf_swapped(pieceChar) == IF pieceChar \in LowerCasePieces THEN "w" ELSE "b"

\* data-piece-colour of the piece on a rendered square.
pieceColourOf(pieceChar) == IF pieceChar \in LowerCasePieces THEN "b" ELSE "w"

----------------------------------------------------------------------------
(* The rules engine, ChessEngineAPI: kings and rooks on the scaled board.  *)

\* The engine reports '50-move' once the halfmove clock reaches this value
\* (100 in chess; scaled with the board).
HalfmoveLimit == 2

FileIndex(letter) == CHOOSE c \in 1..BoardSize : files[c] = letter

\* new ChessEngineAPI(fen): the piece on every square.
EngineGrid(f) ==
    LET rows == Split(f[1], "/")
        RankCells(r) == ExpandRow(rows[BoardSize + 1 - r])
    IN [sq \in Coordinates |-> RankCells(sq[2])[FileIndex(sq[1])]]

ColourOf(pieceChar) == IF pieceChar \in LowerCasePieces THEN "b" ELSE "w"

Opponent(colour) == IF colour = "w" THEN "b" ELSE "w"

Abs(n) == IF n < 0 THEN -n ELSE n

Between(a, b) == {x \in 1..BoardSize : (a < x /\ x < b) \/ (b < x /\ x < a)}

\* The piece on `from` attacks square `to`.
Attacks(grid, from, to) ==
    LET fc == FileIndex(from[1])
        tc == FileIndex(to[1])
        fr == from[2]
        tr == to[2]
    IN /\ from # to
       /\ CASE grid[from] \in {"K", "k"} ->
                 Abs(fc - tc) <= 1 /\ Abs(fr - tr) <= 1
            [] grid[from] \in {"R", "r"} ->
                 \/ fc = tc /\ \A r \in Between(fr, tr) : grid[<<files[fc], r>>] = "0"
                 \/ fr = tr /\ \A c \in Between(fc, tc) : grid[<<files[c], fr>>] = "0"
            [] OTHER -> FALSE

KingChar(colour) == IF colour = "w" THEN "K" ELSE "k"

InCheck(grid, colour) ==
    \E k \in Coordinates, a \in Coordinates :
        /\ grid[k] = KingChar(colour)
        /\ grid[a] # "0"
        /\ ColourOf(grid[a]) = Opponent(colour)
        /\ Attacks(grid, a, k)

MovedGrid(grid, from, to) == [grid EXCEPT ![to] = grid[from], ![from] = "0"]

IsCoordinate(sq) == sq \in Coordinates

\* The move is legal for the side to move of f.
IsLegal(f, move) ==
    LET grid == EngineGrid(f)
        from == move[1]
        to == move[2]
    IN /\ IsCoordinate(from) /\ IsCoordinate(to)
       /\ grid[from] # "0"
       /\ ColourOf(grid[from]) = f[2]
       /\ (grid[to] = "0" \/ ColourOf(grid[to]) # f[2])
       /\ Attacks(grid, from, to)
       /\ ~InCheck(MovedGrid(grid, from, to), f[2])

AllMoves == Coordinates \X Coordinates

LegalMoves(f) == {m \in AllMoves : IsLegal(f, m)}

RECURSIVE CollapseRow(_, _)
\* One rank of the placement field: runs of empty cells become their length.
CollapseRow(cells, run) ==
    LET digit == CHOOSE d \in DOMAIN DigitValue : DigitValue[d] = run
        flush == IF run = 0 THEN <<>> ELSE <<digit>>
    IN IF cells = <<>> THEN flush
       ELSE IF Head(cells) = "0" THEN CollapseRow(Tail(cells), run + 1)
       ELSE flush \o <<Head(cells)>> \o CollapseRow(Tail(cells), 0)

RECURSIVE JoinRanks(_, _)
JoinRanks(grid, r) ==
    LET cells == [c \in 1..BoardSize |-> grid[<<files[c], r>>]]
    IN IF r = 1 THEN CollapseRow(cells, 0)
       ELSE CollapseRow(cells, 0) \o <<"/">> \o JoinRanks(grid, r - 1)

\* The placement field of a position, rank BoardSize first.
PlacementOf(grid) == JoinRanks(grid, BoardSize)

\* engine.applyMove(move); engine.getFen(), for an engine built from f.
\* An illegal move is ignored: the position stays what it was.
applyMove(f, move) ==
    IF IsLegal(f, move)
    THEN LET grid == EngineGrid(f)
         IN << PlacementOf(MovedGrid(grid, move[1], move[2])),
               Opponent(f[2]),
               IF grid[move[2]] # "0" THEN 0 ELSE f[3] + 1 >>
    ELSE f

\* engine.isGameOver() for an engine whose position is f.
isGameOver(f) ==
    IF LegalMoves(f) = {}
    THEN IF InCheck(EngineGrid(f), f[2]) THEN "checkmate" ELSE "stalemate"
    ELSE IF f[3] >= HalfmoveLimit THEN "50-move" ELSE "playing"

----------------------------------------------------------------------------
(* The worker: answers a request with a move for the requested position,   *)
(* or with an empty value.                                                 *)

workerAnswers(request) == LegalMoves(request.fen) \cup {NULL}

----------------------------------------------------------------------------
(* The controller *)

\* Positions the settings form is submitted with, besides the empty field:
\* the default placement with black to move, with white to move, and with
\* a halfmove clock that has already reached the engine's draw threshold
\* (state.gameState stays 'playing' until a move is made).
ConfiguredFens ==
    { << DefaultFen[1], "b", 0 >>, << DefaultFen[1], "w", 0 >>,
      << DefaultFen[1], "w", HalfmoveLimit >> }

FormInputs ==
    [playerColour : {NoInput, "w", "b"},
     difficulty   : {NoDifficulty} \cup DOMAIN difficultyScale,
     fen          : {NoFen} \cup ConfiguredFens]

Init ==
    /\ gameState = "playing"
    /\ selectedSquare = NULL
    /\ fen = DefaultFen
    /\ playerColour = "w"
    /\ difficulty = 3
    /\ settingsShown = TRUE
    /\ board = [sq \in {} |-> "0"]
    /\ highlight = {}
    /\ requests = <<>>
    /\ onmessage = NoHandler
    /\ last = [op |-> "init", sq |-> NULL, move |-> NULL, branch |-> "none"]

\* square.classList.toggle('selected-square')
toggleSquareHighlight(marked, square) ==
    IF square \in marked THEN marked \ {square} ELSE marked \cup {square}

\* renderBoard(): every square is created anew from state.fen.
renderBoard ==
    /\ board' = renderedSquares(fen')
    /\ highlight' = {}

\* isValidMove with the negation dropped.
isValidMove_notNegated(moveNotation) ==
    applyMove(fen, moveNotation)[1] = fen[1]

isValidMove(moveNotation) ==
    ~(applyMove(fen, moveNotation)[1] = fen[1])

\* makeMove asking the engine for the status before the move is applied.
makeMove_statusBeforeMove(moveNotation) ==
    /\ selectedSquare' = NULL
    /\ fen' = applyMove(fen, moveNotation)
    /\ gameState' = isGameOver(fen)
    /\ renderBoard

makeMove(moveNotation) ==
    /\ selectedSquare' = NULL
    /\ fen' = applyMove(fen, moveNotation)
    /\ gameState' = isGameOver(fen')
    /\ renderBoard

\* Reads state.fen and state.difficulty as the handler has left them.
makeComputerMove ==
    /\ requests' = Append(requests, [fen |-> fen', depth |-> difficultyScale[difficulty']])
    /\ onmessage' = "handler"

Did(op, sq, move, branch) ==
    last' = [op |-> op, sq |-> sq, move |-> move, branch |-> branch]

\* The submit listener as it would be if it also refreshed state.gameState
\* from the engine for the configured position.
submit_refreshStatus(form) ==
    /\ playerColour' = IF form.playerColour # NoInput THEN form.playerColour ELSE playerColour
    /\ difficulty' = IF form.difficulty # NoDifficulty THEN form.difficulty ELSE difficulty
    /\ fen' = IF form.fen # NoFen THEN form.fen ELSE fen
    /\ settingsShown' = FALSE
    /\ renderBoard
    /\ gameState' = isGameOver(fen')
    /\ IF playerColour' = "b"
       THEN makeComputerMove /\ Did("submit", NULL, NULL, "request")
       ELSE UNCHANGED <<requests, onmessage>> /\ Did("submit", NULL, NULL, "none")
    /\ UNCHANGED selectedSquare

\* settingsElement 'submit' listener
submit(form) ==
    /\ playerColour' = IF form.playerColour # NoInput THEN form.playerColour ELSE playerColour
    /\ difficulty' = IF form.difficulty # NoDifficulty THEN form.difficulty ELSE difficulty
    /\ fen' = IF form.fen # NoFen THEN form.fen ELSE fen
    /\ settingsShown' = FALSE
    /\ renderBoard
    /\ IF playerColour' = "b"
       THEN makeComputerMove /\ Did("submit", NULL, NULL, "request")
       ELSE UNCHANGED <<requests, onmessage>> /\ Did("submit", NULL, NULL, "none")
    /\ UNCHANGED <<gameState, selectedSquare>>

handleSquareClick(square) ==
    LET existingCoordinate == selectedSquare
        clickedCoordinate == square
        piece == hasPiece(square)
        move == <<existingCoordinate, clickedCoordinate>>
    IN
    /\ UNCHANGED <<playerColour, difficulty, settingsShown>>
    /\ IF getTurn # playerColour
       THEN /\ UNCHANGED <<gameState, selectedSquare, fen, board, highlight,
                           requests, onmessage>>
            /\ Did("click", square, NULL, "ignored")
       ELSE IF selectedSquare = NULL /\ piece
       THEN /\ highlight' = toggleSquareHighlight(highlight, square)
            /\ selectedSquare' = square
            /\ UNCHANGED <<gameState, fen, board, requests, onmessage>>
            /\ Did("click", square, NULL, "arm")
       ELSE IF selectedSquare # NULL
       THEN IF isValidMove(move)
            THEN /\ makeMove(move)
                 /\ makeComputerMove
                 /\ Did("click", square, move, "commit")
            ELSE IF existingCoordinate = clickedCoordinate
            THEN /\ highlight' = toggleSquareHighlight(highlight, square)
                 /\ UNCHANGED <<gameState, selectedSquare, fen, board,
                                requests, onmessage>>
                 /\ Did("click", square, move, "reclick")
            ELSE IF piece /\ pieceColourOf(board[square]) = playerColour
            THEN /\ highlight' = toggleSquareHighlight(
                                   toggleSquareHighlight(highlight, selectedSquare),
                                   square)
                 /\ selectedSquare' = square
                 /\ UNCHANGED <<gameState, fen, board, requests, onmessage>>
                 /\ Did("click", square, move, "retarget")
            ELSE /\ highlight' = toggleSquareHighlight(highlight, selectedSquare)
                 /\ selectedSquare' = NULL
                 /\ UNCHANGED <<gameState, fen, board, requests, onmessage>>
                 /\ Did("click", square, move, "discard")
       ELSE /\ UNCHANGED <<gameState, selectedSquare, fen, board, highlight,
                           requests, onmessage>>
            /\ Did("click", square, NULL, "none")

\* The reply handler as it would be if an empty reply were taken to mean that
\* the computer has no move, and the game were declared drawn.
onmessageHandler_emptyEndsGame(bestMove) ==
    /\ UNCHANGED <<playerColour, difficulty, settingsShown, onmessage>>
    /\ IF bestMove # NULL
       THEN makeMove(bestMove) /\ Did("reply", NULL, bestMove, "move")
       ELSE /\ gameState' = "stalemate"
            /\ UNCHANGED <<selectedSquare, fen, board, highlight>>
            /\ Did("reply", NULL, NULL, "empty")

\* The reply handler as it would be if, after the engine call, it handed the
\* turn to the player itself instead of storing the engine's FEN as it is.
onmessageHandler_handsTurnToPlayer(bestMove) ==
    /\ UNCHANGED <<playerColour, difficulty, settingsShown, onmessage>>
    /\ IF bestMove # NULL
       THEN /\ selectedSquare' = NULL
            /\ fen' = [applyMove(fen, bestMove) EXCEPT ![2] = playerColour]
            /\ gameState' = isGameOver(fen')
            /\ renderBoard
            /\ Did("reply", NULL, bestMove, "move")
       ELSE /\ UNCHANGED <<gameState, selectedSquare, fen, board, highlight>>
            /\ Did("reply", NULL, NULL, "empty")

\* chessWorker.onmessage, as makeComputerMove sets it
onmessageHandler(bestMove) ==
    /\ UNCHANGED <<playerColour, difficulty, settingsShown, onmessage>>
    /\ IF bestMove # NULL
       THEN makeMove(bestMove) /\ Did("reply", NULL, bestMove, "move")
       ELSE /\ UNCHANGED <<gameState, selectedSquare, fen, board, highlight>>
            /\ Did("reply", NULL, NULL, "empty")

----------------------------------------------------------------------------
(* Events *)

Submit ==
    /\ settingsShown
    /\ \E form \in FormInputs : submit(form)

\* A click needs a rendered square to land on.
Click ==
    /\ fen[3] < MaxHalfmove
    /\ \E square \in DOMAIN board : handleSquareClick(square)

\* The worker answers its oldest request; the reply runs chessWorker.onmessage.
Reply ==
    /\ fen[3] < MaxHalfmove
    /\ requests # <<>>
    /\ onmessage # NoHandler
    /\ requests' = Tail(requests)
    /\ \E bestMove \in workerAnswers(Head(requests)) : onmessageHandler(bestMove)

Next == Submit \/ Click \/ Reply

Spec == Init /\ [][Next]_vars

----------------------------------------------------------------------------
(* The codec on arbitrary placement fields: the settings form is submitted  *)
(* with every field whose ranks sum to BoardSize cells, and renderBoard     *)
(* parses it.                                                               *)

CodecCharacters ==
    {"K", "p"} \cup {d \in DOMAIN DigitValue : DigitValue[d] \in 1..BoardSize}

RECURSIVE CellCount(_)
CellCount(row) ==
    IF row = <<>> THEN 0
    ELSE (IF IsDigit(Head(row)) THEN DigitValue[Head(row)] ELSE 1)
         + CellCount(Tail(row))

\* Every rank string that stands for BoardSize cells.
CodecRanks ==
    {row \in UNION {[1..n -> CodecCharacters] : n \in 1..BoardSize} :
        CellCount(row) = BoardSize}

RECURSIVE Join(_, _)
\* Array.prototype.join on a one-character separator.
Join(rows, sep) ==
    IF Len(rows) = 0 THEN <<>>
    ELSE IF Len(rows) = 1 THEN rows[1]
    ELSE rows[1] \o <<sep>> \o Join(Tail(rows), sep)

CodecFields == {Join(rows, "/") : rows \in [1..BoardSize -> CodecRanks]}

CodecFormInputs ==
    [playerColour : {NoInput},
     difficulty   : {NoDifficulty},
     fen          : {<<field, "w", 0>> : field \in CodecFields}]

SubmitCodec ==
    /\ settingsShown
    /\ \E form \in CodecFormInputs : submit(form)

SpecCodec == Init /\ [][SubmitCodec]_vars

----------------------------------------------------------------------------
(* Properties *)

Terminal == {"checkmate", "stalemate", "50-move"}

\* C1: at most one SearchRequest is outstanding in every reachable state.
C1_AtMostOneOutstanding == Len(requests) <= 1

\* C2: no move is committed by the wrong actor: a click changes state.fen
\* only when the side to move is the player's colour, and a worker reply
\* changes state.fen only when the side to move is not the player's colour.
C2_NoWrongActor ==
    [][ /\ (last'.op = "click" /\ fen' # fen) => fen[2] = playerColour
        /\ (last'.op = "reply" /\ fen' # fen) => fen[2] # playerColour ]_vars

\* C3: a click made while the side to move differs from state.playerColour
\* changes neither state.fen, state.gameState, state.selectedSquare nor any
\* highlight, and sends no SearchRequest.
C3_OpponentTurnClickIgnored ==
    [][ (last'.op = "click" /\ fen[2] # playerColour)
          => UNCHANGED <<fen, gameState, selectedSquare, highlight, requests>> ]_vars

\* A click has just been ignored on the opponent's turn.
C3_Witness ==
    /\ last.op = "click"
    /\ last.branch = "ignored"
    /\ fen[2] # playerColour
    /\ requests # <<>>

\* C4: once state.gameState is terminal, a click leaves state.fen,
\* state.gameState and state.selectedSquare unchanged and sends no
\* SearchRequest, whatever the coordinate and whoever is to move.
C4_TerminalClickIgnored ==
    [][ (last'.op = "click" /\ gameState \in Terminal)
          => UNCHANGED <<fen, gameState, selectedSquare, requests>> ]_vars

\* C5: clicking the armed square again on the player's turn returns the
\* selection to Idle and leaves state.fen and state.gameState unchanged.
C5_ReclickDeselects ==
    [][ ( /\ last'.op = "click"
          /\ selectedSquare # NULL
          /\ last'.sq = selectedSquare
          /\ fen[2] = playerColour )
          => /\ selectedSquare' = NULL
             /\ fen' = fen
             /\ gameState' = gameState ]_vars

\* C6: a click with an armed origin whose move the engine leaves the piece
\* placement unchanged for changes neither state.fen nor state.gameState and
\* sends no SearchRequest.
C6_RejectedAttemptKeepsSession ==
    [][ ( /\ last'.op = "click"
          /\ selectedSquare # NULL
          /\ applyMove(fen, <<selectedSquare, last'.sq>>)[1] = fen[1] )
          => /\ fen' = fen
             /\ gameState' = gameState
             /\ requests' = requests ]_vars

\* A move attempt from an armed square has just been rejected.
C6_Witness ==
    /\ last.op = "click"
    /\ last.move # NULL
    /\ last.branch \in {"reclick", "retarget", "discard"}
    /\ applyMove(fen, last.move)[1] = fen[1]

\* C7: a click on the player's turn with an armed origin whose move changes
\* the piece placement replaces state.fen by the engine's resulting FEN,
\* clears the selection and sets state.gameState to the engine's status of
\* the new position.
C7_CommitIsAtomic ==
    [][ ( /\ last'.op = "click"
          /\ selectedSquare # NULL
          /\ fen[2] = playerColour
          /\ applyMove(fen, <<selectedSquare, last'.sq>>)[1] # fen[1] )
          => /\ fen' = applyMove(fen, <<selectedSquare, last'.sq>>)
             /\ selectedSquare' = NULL
             /\ gameState' = isGameOver(fen') ]_vars

\* A human move that ended the game has just been committed.
C7_Witness ==
    /\ last.op = "click"
    /\ last.branch = "commit"
    /\ selectedSquare = NULL
    /\ gameState \in Terminal

\* C8: after a committed human move a SearchRequest is sent if and only if
\* the new side to move is not the player's colour and the new status is
\* not terminal.
C8_RequestIffComputerToPlay ==
    [][ (last'.op = "click" /\ fen' # fen)
          => ( (requests' # requests)
                 <=> (fen'[2] # playerColour /\ gameState' \notin Terminal) ) ]_vars

\* C9: every SearchRequest is created in a state where the side to move of
\* state.fen is the non-player colour, whether the configuration or a human
\* move triggered it.
C9_RequestOnComputerTurn ==
    [][ Len(requests') > Len(requests) => fen'[2] # playerColour' ]_vars

\* C10: a worker reply is handled at the position its SearchRequest carried.
C10_ReplyAtRequestedPosition ==
    [][ last'.op = "reply" => Head(requests).fen = fen ]_vars

C13_EmptyReplyDropped ==
    [][ (last'.op = "reply" /\ last'.move = NULL)
          => /\ UNCHANGED <<fen, gameState, selectedSquare>>
             /\ Len(requests') < Len(requests)
             /\ \A i \in 1..Len(requests') : requests'[i] = requests[i + 1]
             /\ (fen[2] # playerColour => fen'[2] # playerColour') ]_vars

\* An empty reply has just been dropped on the computer's turn.
C13_Witness ==
    /\ last.op = "reply"
    /\ last.move = NULL
    /\ last.branch = "empty"
    /\ fen[2] # playerColour
    /\ gameState = "playing"
    /\ requests = <<>>

\* C14: every SearchRequest carries state.fen as it is when the request is
\* sent, and the depth 2, 4, 5, 7, 10 for difficulty 1, 2, 3, 4, 5.
C14_RequestCarriesFenAndDepth ==
    [][ Len(requests') > Len(requests)
          => /\ Len(requests') = Len(requests) + 1
             /\ requests'[Len(requests')].fen = fen'
             /\ difficulty' \in 1..5
             /\ requests'[Len(requests')].depth =
                  <<2, 4, 5, 7, 10>>[difficulty'] ]_vars

\* A human move committed at a changed difficulty has just sent its request.
C14_Witness ==
    /\ last.op = "click"
    /\ last.branch = "commit"
    /\ difficulty = 4
    /\ requests # <<>>
    /\ requests[Len(requests)] = [fen |-> fen, depth |-> 7]

\* The piece character on a coordinate in position f, read off the placement
\* field rank by rank ("0" for an empty cell).
PieceAt(f, sq) == EngineGrid(f)[sq]

C15_RetargetOnOwnPiece ==
    [][ ( /\ last'.op = "click"
          /\ fen[2] = playerColour
          /\ selectedSquare # NULL
          /\ last'.sq # selectedSquare
          /\ PieceAt(fen, last'.sq) # "0"
          /\ ColourOf(PieceAt(fen, last'.sq)) = fen[2]
          /\ applyMove(fen, <<selectedSquare, last'.sq>>)[1] = fen[1] )
          => /\ selectedSquare' = last'.sq
             /\ fen' = fen
             /\ gameState' = gameState ]_vars

\* The selection has just moved from one piece of the player to another.
C15_Witness ==
    /\ last.op = "click"
    /\ last.branch = "retarget"
    /\ selectedSquare = last.sq
    /\ last.move[1] # last.sq
    /\ ColourOf(PieceAt(fen, last.sq)) = playerColour
    /\ PieceAt(fen, last.move[1]) # "0"
    /\ ColourOf(PieceAt(fen, last.move[1])) = playerColour

\* C16: with a square armed on the player's turn, a click on a different
\* square that is empty or holds an opponent piece, where the pair is not an
\* accepted move, clears the selection and leaves state.fen and
\* state.gameState unchanged.
C16_DiscardOnOtherSquare ==
    [][ ( /\ last'.op = "click"
          /\ fen[2] = playerColour
          /\ selectedSquare # NULL
          /\ last'.sq # selectedSquare
          /\ \/ PieceAt(fen, last'.sq) = "0"
             \/ ColourOf(PieceAt(fen, last'.sq)) # fen[2]
          /\ applyMove(fen, <<selectedSquare, last'.sq>>)[1] = fen[1] )
          => /\ selectedSquare' = NULL
             /\ fen' = fen
             /\ gameState' = gameState ]_vars

\* The selection has just been discarded by a click on an opponent piece.
C16_Witness ==
    /\ last.op = "click"
    /\ last.branch = "discard"
    /\ selectedSquare = NULL
    /\ PieceAt(fen, last.sq) # "0"
    /\ ColourOf(PieceAt(fen, last.sq)) # playerColour
    /\ fen[2] = playerColour

\* Every run of empty cells of the field is written as one digit.
RunsAreMaximal(field) ==
    \A i \in 1..(Len(field) - 1) : ~(IsDigit(field[i]) /\ IsDigit(field[i + 1]))

\* The grid's rows in reverse order, each with its runs of "0" collapsed to
\* their length, joined with "/".
Recollapsed(position) ==
    Join([i \in 1..Len(position) |-> CollapseRow(Reverse(position)[i], 0)], "/")

\* The grid has BoardSize rows of BoardSize cells and its first row is rank 1:
\* row r, column c is the piece on files[c] r.
GridShape(f, position) ==
    /\ Len(position) = BoardSize
    /\ \A r \in 1..BoardSize : Len(position[r]) = BoardSize
    /\ \A sq \in Coordinates : position[sq[2]][FileIndex(sq[1])] = PieceAt(f, sq)

\* C17 (as claimed): for every placement field whose ranks each sum to
\* BoardSize cells, the grid of transformFenToPositionArray has the right
\* shape and collapses back to the field.
C17_RoundTripEveryField ==
    ~settingsShown =>
        /\ GridShape(fen, transformFenToPositionArray(fen))
        /\ Recollapsed(transformFenToPositionArray(fen)) = fen[1]

\* C17 (amended): the grid has the right shape and shows on the rendered
\* squares for every such field, and it collapses back to the field when
\* every run of empty cells of the field is written as one digit.
C17_RoundTripMaximalRuns ==
    ~settingsShown =>
        /\ GridShape(fen, transformFenToPositionArray(fen))
        /\ \A sq \in Coordinates : board[sq] = PieceAt(fen, sq)
        /\ RunsAreMaximal(fen[1])
             => Recollapsed(transformFenToPositionArray(fen)) = fen[1]

\* A field with pieces and maximal runs on distinct ranks has been parsed.
C17_Witness ==
    /\ ~settingsShown
    /\ fen[1] = <<"K", "2", "/", "1", "p", "1", "/", "3">>
    /\ RunsAreMaximal(fen[1])
    /\ transformFenToPositionArray(fen)
         = << <<"0", "0", "0">>, <<"0", "p", "0">>, <<"K", "0", "0">> >>
    /\ board[<<"a", 3>>] = "K"

\* C18: once state.gameState is terminal, state.fen never changes again.
C18_TerminalFreezesPosition ==
    [][ (gameState \in Terminal) => (fen' = fen) ]_vars

\* C19: after the configuration has been applied, the game is never stuck
\* waiting on the computer: whenever the computer is to move and the status
\* is 'playing', a SearchRequest is outstanding, whose reply is the only
\* step that can end the computer's turn.
C19_ComputerTurnHasRequest ==
    (~settingsShown /\ fen[2] # playerColour /\ gameState = "playing")
        => requests # <<>>

\* C20: the highlighted squares are exactly the armed square, and none when
\* no square is armed.
C20_HighlightIsSelection ==
    highlight = IF selectedSquare = NULL THEN {} ELSE {selectedSquare}

====
